---- MODULE Spec2Model ----
(***************************************************************************)
(* Model of the todo application: the localStorage gateway (todoApi), the  *)
(* query engine (filterAndSortTodos) and the state container (todoReducer  *)
(* and the TodoProvider actions).                                           *)
(*                                                                         *)
(* Time is the millisecond clock read by Date.now() / new Date(); it is    *)
(* taken to be non-decreasing.  Every gateway call first awaits delay(ms)  *)
(* with ms >= 100, so its body runs at a clock value strictly greater than *)
(* the one at which the call was issued.  The body of a gateway call and   *)
(* the continuation of the container action awaiting it run in one turn of *)
(* the event loop, so together they are one step.                          *)
(***************************************************************************)
EXTENDS Integers, Sequences, FiniteSets, Bags, TLC

VARIABLES
  now,           \* Date.now()
  localStorage,  \* the item stored under STORAGE_KEY: None or Some(JSON array)
  state,         \* the TodoState held by useReducer
  calls,         \* the bag of gateway calls in flight
  ev,            \* history: what the last step was
  tg,            \* history: the last one or two successive status toggles
  backend,       \* the todos table of the HTTP+SQL service and its responses
  debounced,     \* the timer of a debounced function and its history
  form           \* the state of the TodoForm a parent component renders

vars == << now, localStorage, state, calls, ev, tg, backend, debounced, form >>

\* what the steps of one part of the system leave alone
frontend == << localStorage, state, calls, ev, tg >>
elsewhere == << backend, debounced, form >>

----------------------------------------------------------------------------
\* Bounds of the model

MaxTime == 3      \* last clock value when one action runs at a time
ParTime == 2      \* last clock value when actions overlap
MaxTodos == 2     \* records the storage holds at most
MaxInFlight == 2  \* actions that overlap at most
NumRand == 2      \* distinct values of Math.random()
MaxCollection == 2  \* records of a collection handed to the query engine

\* The two ways the actions are driven: by one actor that starts an action
\* only after the previous one has ended, or by callers whose actions
\* overlap.  With ghost, a caller may also name an id that no record carries.
OneActor == [inflight |-> 1, horizon |-> MaxTime, ghost |-> TRUE]
Overlapping == [inflight |-> MaxInFlight, horizon |-> ParTime, ghost |-> FALSE]

----------------------------------------------------------------------------
\* Optional values: undefined / absent is None, a present value v is Some(v)

None == << >>
Some(v) == << v >>
IsSome(o) == Len(o) = 1
Val(o) == o[1]

Min(a, b) == IF a < b THEN a ELSE b

\* Strings are sequences of characters; Code is the UTF-16 code unit
Chars == {"A", "B", "a", "b"}
Code(c) == CASE c = "A" -> 65 [] c = "B" -> 66 [] c = "a" -> 97 [] c = "b" -> 98
toLowerChar(c) == CASE c = "A" -> "a" [] c = "B" -> "b" [] OTHER -> c
toLowerCase(s) == [i \in 1..Len(s) |-> toLowerChar(s[i])]

\* String.prototype.includes
includes(s, sub) ==
  \E i \in 0..(Len(s) - Len(sub)) : \A j \in 1..Len(sub) : s[i + j] = sub[j]

\* s < t on strings: lexicographic by code unit
StrLess(s, t) ==
  \E k \in 1..(Min(Len(s), Len(t)) + 1) :
    /\ \A j \in 1..(k - 1) : s[j] = t[j]
    /\ \/ k = Len(s) + 1 /\ k <= Len(t)
       \/ k <= Len(s) /\ k <= Len(t) /\ Code(s[k]) < Code(t[k])

Priority == {"high", "medium", "low"}
TaskStatus == {"pending", "completed"}
PENDING == "pending"
COMPLETED == "completed"

----------------------------------------------------------------------------
\* Dates and their JSON form (Date.prototype.toJSON gives the ISO-8601 string
\* with millisecond precision; new Date(iso) parses it back)

toISOString(t) == [iso |-> t]
newDateFromISO(s) == s.iso
\* new Date(d) for a Date d copies its time value
newDateFromDate(d) == d

\* JSON.stringify of a Todo: Dates become ISO strings, undefined properties
\* are dropped
stringifyTodo(todo) ==
  [ id |-> todo.id,
    title |-> todo.title,
    description |-> todo.description,
    priority |-> todo.priority,
    status |-> todo.status,
    createdAt |-> toISOString(todo.createdAt),
    updatedAt |-> toISOString(todo.updatedAt),
    completedAt |-> IF IsSome(todo.completedAt)
                      THEN Some(toISOString(Val(todo.completedAt)))
                      ELSE None ]

JSONstringify(todos) == [i \in 1..Len(todos) |-> stringifyTodo(todos[i])]

\* the map of getTodosFromStorage over the parsed array
reviveTodo(j) ==
  [ id |-> j.id,
    title |-> j.title,
    description |-> j.description,
    priority |-> j.priority,
    status |-> j.status,
    createdAt |-> newDateFromISO(j.createdAt),
    updatedAt |-> newDateFromISO(j.updatedAt),
    completedAt |-> IF IsSome(j.completedAt)
                      THEN Some(newDateFromISO(Val(j.completedAt)))
                      ELSE None ]

----------------------------------------------------------------------------
\* Persistence gateway (services/api.ts)

\* An item whose text JSON.parse rejects: the two characters [{ .  As a value
\* of localStorage it is told apart from an absent item and from a stored
\* array by its length.
Unparsable == << "[", "{" >>

\* a variant that salvages a record from text it cannot parse
getTodosFromStorage_salvages(ls) ==
  IF Len(ls) = 2
    THEN [ todos |-> << [ id |-> << 0, 1 >>, title |-> << "A" >>, description |-> None,
                          priority |-> "high", status |-> "pending",
                          createdAt |-> 0, updatedAt |-> 0, completedAt |-> None ] >>,
           ls |-> ls ]
  ELSE IF ~IsSome(ls)
    THEN [todos |-> << >>, ls |-> Some(<< >>)]
    ELSE [todos |-> [i \in 1..Len(Val(ls)) |-> reviveTodo(Val(ls)[i])], ls |-> ls]

\* getTodosFromStorage: the todos read, and the storage afterwards (an
\* absent item is initialised to the empty array; text that JSON.parse
\* rejects lands in the catch block, which returns the empty array and
\* leaves the item alone)
getTodosFromStorage(ls) ==
  IF Len(ls) = 2
    THEN [todos |-> << >>, ls |-> ls]
  ELSE IF ~IsSome(ls)
    THEN [todos |-> << >>, ls |-> Some(<< >>)]
    ELSE [todos |-> [i \in 1..Len(Val(ls)) |-> reviveTodo(Val(ls)[i])], ls |-> ls]

\* saveTodosToStorage, when setItem succeeds
saveTodosToStorage(todos) == Some(JSONstringify(todos))

\* todos.filter(todo => todo[field] === value).length
Count(todos, field, value) == Cardinality({i \in 1..Len(todos) : todos[i][field] = value})

calculateStats(todos) ==
  [ total |-> Len(todos),
    completed |-> Count(todos, "status", COMPLETED),
    pending |-> Count(todos, "status", PENDING),
    byPriority |->
      [ high |-> Count(todos, "priority", "high"),
        medium |-> Count(todos, "priority", "medium"),
        low |-> Count(todos, "priority", "low") ] ]

ApiError(message, status) == [message |-> message, status |-> status]

\* findIndex(t => t.id === id): the first index, 0 when there is none
findIndex(todos, id) ==
  IF \E i \in 1..Len(todos) : todos[i].id = id
    THEN CHOOSE i \in 1..Len(todos) :
           todos[i].id = id /\ \A j \in 1..(i - 1) : todos[j].id # id
    ELSE 0

generateId(t, r) == << t, r >>

\* todoApi.getTodos
apiGetTodos(ls) ==
  LET rd == getTodosFromStorage(ls)
  IN [ok |-> TRUE, data |-> rd.todos, stats |-> calculateStats(rd.todos), ls |-> rd.ls]

\* todoApi.createTodo; idAt, createdAt and updatedAt are the three clock
\* reads of the body, rnd the value of Math.random, canSave whether setItem
\* succeeds
apiCreateTodo(ls, todo, idAt, rnd, createdAt, updatedAt, canSave) ==
  LET rd == getTodosFromStorage(ls)
      newTodo == [ id |-> generateId(idAt, rnd),
                   title |-> todo.title,
                   description |-> todo.description,
                   priority |-> todo.priority,
                   status |-> PENDING,
                   createdAt |-> createdAt,
                   updatedAt |-> updatedAt,
                   completedAt |-> None ]
  IN IF canSave
       THEN [ok |-> TRUE, data |-> Some(newTodo), error |-> None,
             ls |-> saveTodosToStorage(Append(rd.todos, newTodo))]
       ELSE [ok |-> FALSE, data |-> None,
             error |-> Some(ApiError("Failed to create todo", 500)), ls |-> rd.ls]

\* { ...existingTodo, ...todoUpdate }: a property present in the request
\* replaces the stored one
spread(existingTodo, todoUpdate) ==
  [ id |-> Val(todoUpdate.id),
    title |-> IF IsSome(todoUpdate.title) THEN Val(todoUpdate.title) ELSE existingTodo.title,
    description |-> IF IsSome(todoUpdate.description)
                      THEN Val(todoUpdate.description) ELSE existingTodo.description,
    priority |-> IF IsSome(todoUpdate.priority)
                   THEN Val(todoUpdate.priority) ELSE existingTodo.priority,
    status |-> IF IsSome(todoUpdate.status) THEN Val(todoUpdate.status) ELSE existingTodo.status,
    createdAt |-> existingTodo.createdAt,
    updatedAt |-> existingTodo.updatedAt,
    completedAt |-> existingTodo.completedAt ]

\* mergeTodo, had it left completedAt alone when the status goes back to pending
mergeTodo_keepsCompletedAt(existingTodo, todoUpdate, t) ==
  [ spread(existingTodo, todoUpdate) EXCEPT
      !.updatedAt = t,
      !.completedAt =
        IF todoUpdate.status = Some(COMPLETED) /\ existingTodo.status # COMPLETED
          THEN Some(t)
          ELSE existingTodo.completedAt ]

\* mergeTodo, had it stamped completedAt on every request for completed
mergeTodo_restamps(existingTodo, todoUpdate, t) ==
  [ spread(existingTodo, todoUpdate) EXCEPT
      !.updatedAt = t,
      !.completedAt =
        IF todoUpdate.status = Some(COMPLETED)
          THEN Some(t)
          ELSE IF todoUpdate.status = Some(PENDING)
                 THEN None
                 ELSE existingTodo.completedAt ]

\* mergeTodo, had it not set updatedAt
mergeTodo_staleUpdatedAt(existingTodo, todoUpdate, t) ==
  [ spread(existingTodo, todoUpdate) EXCEPT
      !.completedAt =
        IF todoUpdate.status = Some(COMPLETED) /\ existingTodo.status # COMPLETED
          THEN Some(t)
          ELSE IF todoUpdate.status = Some(PENDING)
                 THEN None
                 ELSE existingTodo.completedAt ]

\* the updatedTodo object built by todoApi.updateTodo
mergeTodo(existingTodo, todoUpdate, t) ==
  [ spread(existingTodo, todoUpdate) EXCEPT
      !.updatedAt = t,
      !.completedAt =
        IF todoUpdate.status = Some(COMPLETED) /\ existingTodo.status # COMPLETED
          THEN Some(t)
          ELSE IF todoUpdate.status = Some(PENDING)
                 THEN None
                 ELSE existingTodo.completedAt ]

\* todoApi.updateTodo
apiUpdateTodo(ls, todoUpdate, t, canSave) ==
  LET rd == getTodosFromStorage(ls)
      todoIndex == findIndex(rd.todos, Val(todoUpdate.id))
  IN IF todoIndex = 0
       THEN [ok |-> FALSE, data |-> None,
             error |-> Some(ApiError("Todo not found", 404)), ls |-> rd.ls]
       ELSE LET updatedTodo == mergeTodo(rd.todos[todoIndex], todoUpdate, t)
            IN IF canSave
                 THEN [ok |-> TRUE, data |-> Some(updatedTodo), error |-> None,
                       ls |-> saveTodosToStorage([rd.todos EXCEPT ![todoIndex] = updatedTodo])]
                 ELSE [ok |-> FALSE, data |-> None,
                       error |-> Some(ApiError("Failed to save todos", 500)), ls |-> rd.ls]

\* Array.prototype.splice(i, 1)
splice1(todos, i) ==
  [k \in 1..(Len(todos) - 1) |-> IF k < i THEN todos[k] ELSE todos[k + 1]]

\* todoApi.deleteTodo, had it not checked the index: splice(-1, 1) removes
\* the last element
apiDeleteTodo_unchecked(ls, id, canSave) ==
  LET rd == getTodosFromStorage(ls)
      todoIndex == IF findIndex(rd.todos, id) = 0 THEN Len(rd.todos) ELSE findIndex(rd.todos, id)
  IN IF canSave
       THEN [ok |-> TRUE, data |-> None, error |-> None,
             ls |-> saveTodosToStorage(IF todoIndex = 0 THEN rd.todos
                                       ELSE splice1(rd.todos, todoIndex))]
       ELSE [ok |-> FALSE, data |-> None,
             error |-> Some(ApiError("Failed to save todos", 500)), ls |-> rd.ls]

\* todoApi.deleteTodo
apiDeleteTodo(ls, id, canSave) ==
  LET rd == getTodosFromStorage(ls)
      todoIndex == findIndex(rd.todos, id)
  IN IF todoIndex = 0
       THEN [ok |-> FALSE, data |-> None,
             error |-> Some(ApiError("Todo not found", 404)), ls |-> rd.ls]
       ELSE IF canSave
              THEN [ok |-> TRUE, data |-> None, error |-> None,
                    ls |-> saveTodosToStorage(splice1(rd.todos, todoIndex))]
              ELSE [ok |-> FALSE, data |-> None,
                    error |-> Some(ApiError("Failed to save todos", 500)), ls |-> rd.ls]

\* the request todoApi.toggleTodoStatus passes to updateTodo
apiToggleTodoStatus(id, currentStatus) ==
  [ id |-> Some(id), title |-> None, description |-> None, priority |-> None,
    status |-> Some(IF currentStatus = "pending" THEN COMPLETED ELSE PENDING) ]

----------------------------------------------------------------------------
\* Query engine (contexts/TodoContext.tsx)

\* the rank, had it followed the alphabet
priorityOrder_alphabetical(p) == CASE p = "high" -> 1 [] p = "low" -> 2 [] p = "medium" -> 3

priorityOrder(p) == CASE p = "high" -> 1 [] p = "medium" -> 2 [] p = "low" -> 3

\* aVal < bVal for the values the comparator derives from sort.field
lessVal(a, b, field) ==
  CASE field = "priority" -> priorityOrder(a.priority) < priorityOrder(b.priority)
    [] field = "title" -> StrLess(toLowerCase(a.title), toLowerCase(b.title))
    [] field = "createdAt" -> a.createdAt < b.createdAt
    [] field = "updatedAt" -> a.updatedAt < b.updatedAt

\* the comparator handed to Array.prototype.sort
compare(a, b, sort) ==
  IF sort.direction = "asc"
    THEN IF lessVal(a, b, sort.field) THEN -1 ELSE IF lessVal(b, a, sort.field) THEN 1 ELSE 0
    ELSE IF lessVal(b, a, sort.field) THEN -1 ELSE IF lessVal(a, b, sort.field) THEN 1 ELSE 0

\* the insertion, had it dropped a record that compares equal to one
\* already placed
insertSorted_dropsEqual(sorted, x, sort) ==
  IF \E i \in 1..Len(sorted) : compare(sorted[i], x, sort) = 0
    THEN sorted
    ELSE LET k == Cardinality({i \in 1..Len(sorted) : compare(sorted[i], x, sort) < 0})
         IN SubSeq(sorted, 1, k) \o << x >> \o SubSeq(sorted, k + 1, Len(sorted))

\* x put behind every element that does not sort after it
insertSorted(sorted, x, sort) ==
  LET k == Cardinality({i \in 1..Len(sorted) : compare(sorted[i], x, sort) <= 0})
  IN SubSeq(sorted, 1, k) \o << x >> \o SubSeq(sorted, k + 1, Len(sorted))

\* a sort that puts a record before the records it compares equal to
arraySort_tiesReversed(todos, sort) ==
  LET F[n \in 0..Len(todos)] ==
        IF n = 0
          THEN << >>
          ELSE LET k == Cardinality({i \in 1..Len(F[n - 1]) :
                                       compare(F[n - 1][i], todos[n], sort) < 0})
               IN SubSeq(F[n - 1], 1, k) \o << todos[n] >>
                    \o SubSeq(F[n - 1], k + 1, Len(F[n - 1]))
  IN F[Len(todos)]

\* a sort that handles desc by sorting ascending and reversing the result
arraySort_descByReversal(todos, sort) ==
  LET up == [sort EXCEPT !.direction = "asc"]
      F[n \in 0..Len(todos)] ==
        IF n = 0 THEN << >> ELSE insertSorted(F[n - 1], todos[n], up)
      sorted == F[Len(todos)]
  IN IF sort.direction = "asc"
       THEN sorted
       ELSE [i \in 1..Len(sorted) |-> sorted[Len(sorted) + 1 - i]]

\* Array.prototype.sort: a stable sort by the comparator
arraySort(todos, sort) ==
  LET F[n \in 0..Len(todos)] ==
        IF n = 0 THEN << >> ELSE insertSorted(F[n - 1], todos[n], sort)
  IN F[Len(todos)]

\* the search predicate, had it compared the search text as typed
matchesSearch_caseSensitive(todo, search) ==
  \/ includes(toLowerCase(todo.title), search)
  \/ /\ IsSome(todo.description)
     /\ Val(todo.description) # << >>
     /\ includes(toLowerCase(Val(todo.description)), search)

matchesSearch(todo, search) ==
  LET searchLower == toLowerCase(search)
  IN \/ includes(toLowerCase(todo.title), searchLower)
     \/ /\ IsSome(todo.description)
        /\ Val(todo.description) # << >>
        /\ includes(toLowerCase(Val(todo.description)), searchLower)

applyFilters(todos, filters) ==
  LET byStatus == IF IsSome(filters.status)
                    THEN SelectSeq(todos, LAMBDA t : t.status = Val(filters.status))
                    ELSE todos
      byPriority == IF IsSome(filters.priority)
                      THEN SelectSeq(byStatus, LAMBDA t : t.priority = Val(filters.priority))
                      ELSE byStatus
  IN IF IsSome(filters.search) /\ Val(filters.search) # << >>
       THEN SelectSeq(byPriority, LAMBDA t : matchesSearch(t, Val(filters.search)))
       ELSE byPriority

filterAndSortTodos(todos, filters, sort) == arraySort(applyFilters(todos, filters), sort)

----------------------------------------------------------------------------
\* State container: the reducer (contexts/TodoContext.tsx)

initialState ==
  [ allTodos |-> << >>,
    todos |-> << >>,
    stats |-> [ total |-> 0, completed |-> 0, pending |-> 0,
                byPriority |-> [high |-> 0, medium |-> 0, low |-> 0] ],
    filters |-> [status |-> None, priority |-> None, search |-> None],
    sort |-> [field |-> "createdAt", direction |-> "desc"],
    isLoading |-> FALSE,
    error |-> None ]

\* { ...todo, createdAt: new Date(todo.createdAt), ... } of the reducer
withDates(todo) ==
  [ todo EXCEPT
      !.createdAt = newDateFromDate(todo.createdAt),
      !.updatedAt = newDateFromDate(todo.updatedAt),
      !.completedAt = IF IsSome(todo.completedAt)
                        THEN Some(newDateFromDate(Val(todo.completedAt)))
                        ELSE None ]

\* variant: the end of loading also clears the error
reduceSetLoading_clearsError(st, payload) ==
  IF payload THEN [st EXCEPT !.isLoading = payload]
             ELSE [st EXCEPT !.isLoading = payload, !.error = None]

reduceSetLoading(st, payload) == [st EXCEPT !.isLoading = payload]

\* SET_ERROR, had it left the loading flag alone
reduceSetError_keepsLoading(st, payload) == [st EXCEPT !.error = payload]

reduceSetError(st, payload) == [st EXCEPT !.error = payload, !.isLoading = FALSE]

\* SET_TODOS, had it kept the last error
reduceSetTodos_keepsError(st, payload) ==
  LET mappedTodos == [i \in 1..Len(payload.todos) |-> withDates(payload.todos[i])]
  IN [ st EXCEPT
         !.allTodos = mappedTodos,
         !.todos = filterAndSortTodos(mappedTodos, st.filters, st.sort),
         !.stats = payload.stats,
         !.isLoading = FALSE ]

reduceSetTodos(st, payload) ==
  LET mappedTodos == [i \in 1..Len(payload.todos) |-> withDates(payload.todos[i])]
  IN [ st EXCEPT
         !.allTodos = mappedTodos,
         !.todos = filterAndSortTodos(mappedTodos, st.filters, st.sort),
         !.stats = payload.stats,
         !.isLoading = FALSE,
         !.error = None ]

\* ADD_TODO, had it counted the new record as completed
reduceAddTodo_countsCompleted(st, payload) ==
  LET newAllTodos == Append(st.allTodos, withDates(payload))
  IN [ st EXCEPT
         !.allTodos = newAllTodos,
         !.todos = filterAndSortTodos(newAllTodos, st.filters, st.sort),
         !.stats = [ st.stats EXCEPT
                       !.total = @ + 1,
                       !.completed = @ + 1,
                       !.byPriority[payload.priority] = @ + 1 ] ]

reduceAddTodo(st, payload) ==
  LET newAllTodos == Append(st.allTodos, withDates(payload))
  IN [ st EXCEPT
         !.allTodos = newAllTodos,
         !.todos = filterAndSortTodos(newAllTodos, st.filters, st.sort),
         !.stats = [ st.stats EXCEPT
                       !.total = @ + 1,
                       !.pending = @ + 1,
                       !.byPriority[payload.priority] = @ + 1 ] ]

\* UPDATE_TODO, had it not recomputed the view
reduceUpdateTodo_staleView(st, payload) ==
  [ st EXCEPT
      !.allTodos = [ i \in 1..Len(st.allTodos) |->
                       IF st.allTodos[i].id = payload.id
                         THEN withDates(payload) ELSE st.allTodos[i] ] ]

\* UPDATE_TODO, had it recomputed stats from the new collection
reduceUpdateTodo_patchesStats(st, payload) ==
  LET updatedAllTodos ==
        [ i \in 1..Len(st.allTodos) |->
            IF st.allTodos[i].id = payload.id THEN withDates(payload) ELSE st.allTodos[i] ]
  IN [ st EXCEPT
         !.allTodos = updatedAllTodos,
         !.todos = filterAndSortTodos(updatedAllTodos, st.filters, st.sort),
         !.stats = calculateStats(updatedAllTodos) ]

reduceUpdateTodo(st, payload) ==
  LET updatedAllTodos ==
        [ i \in 1..Len(st.allTodos) |->
            IF st.allTodos[i].id = payload.id THEN withDates(payload) ELSE st.allTodos[i] ]
  IN [ st EXCEPT
         !.allTodos = updatedAllTodos,
         !.todos = filterAndSortTodos(updatedAllTodos, st.filters, st.sort) ]

\* DELETE_TODO, had it always taken the removed record for a pending one
reduceDeleteTodo_decrementsPending(st, payload) ==
  LET at == findIndex(st.allTodos, payload)
  IN IF at = 0
       THEN st
       ELSE LET todoToDelete == st.allTodos[at]
                filteredAllTodos == SelectSeq(st.allTodos, LAMBDA t : t.id # payload)
            IN [ st EXCEPT
                   !.allTodos = filteredAllTodos,
                   !.todos = filterAndSortTodos(filteredAllTodos, st.filters, st.sort),
                   !.stats = [ st.stats EXCEPT
                                 !.total = @ - 1,
                                 !.pending = @ - 1,
                                 !.byPriority[todoToDelete.priority] = @ - 1 ] ]

reduceDeleteTodo(st, payload) ==
  LET at == findIndex(st.allTodos, payload)
  IN IF at = 0
       THEN st
       ELSE LET todoToDelete == st.allTodos[at]
                filteredAllTodos == SelectSeq(st.allTodos, LAMBDA t : t.id # payload)
            IN [ st EXCEPT
                   !.allTodos = filteredAllTodos,
                   !.todos = filterAndSortTodos(filteredAllTodos, st.filters, st.sort),
                   !.stats = [ st.stats EXCEPT
                                 !.total = @ - 1,
                                 ![todoToDelete.status] = @ - 1,
                                 !.byPriority[todoToDelete.priority] = @ - 1 ] ]

\* SET_FILTERS, had it put the sort back to its default
reduceSetFilters_resetsSort(st, payload) ==
  [ st EXCEPT
      !.filters = payload,
      !.sort = initialState.sort,
      !.todos = filterAndSortTodos(st.allTodos, payload, initialState.sort) ]

reduceSetFilters(st, payload) ==
  [ st EXCEPT
      !.filters = payload,
      !.todos = filterAndSortTodos(st.allTodos, payload, st.sort) ]

reduceSetSort(st, payload) ==
  [ st EXCEPT
      !.sort = payload,
      !.todos = filterAndSortTodos(st.allTodos, st.filters, payload) ]

todoReducer(st, action) ==
  CASE action.type = "SET_LOADING" -> reduceSetLoading(st, action.payload)
    [] action.type = "SET_ERROR" -> reduceSetError(st, action.payload)
    [] action.type = "SET_TODOS" -> reduceSetTodos(st, action.payload)
    [] action.type = "ADD_TODO" -> reduceAddTodo(st, action.payload)
    [] action.type = "UPDATE_TODO" -> reduceUpdateTodo(st, action.payload)
    [] action.type = "DELETE_TODO" -> reduceDeleteTodo(st, action.payload)
    [] action.type = "SET_FILTERS" -> reduceSetFilters(st, action.payload)
    [] action.type = "SET_SORT" -> reduceSetSort(st, action.payload)
    [] OTHER -> st

dispatch(st, type, payload) == todoReducer(st, [type |-> type, payload |-> payload])

----------------------------------------------------------------------------
\* Inputs of the actions

CreateChoices ==
  { [title |-> << "A" >>, description |-> None, priority |-> "high"],
    [title |-> << "b" >>, description |-> Some(<< "a", "B" >>), priority |-> "low"] }

\* the request TodoForm submits when editing (title, description || undefined,
\* priority), and the status requests of todoApi.toggleTodoStatus
UpdateChoices(id) ==
  { [ id |-> Some(id), title |-> Some(<< "B", "a" >>), description |-> Some(None),
      priority |-> Some("medium"), status |-> None ] }
  \cup { apiToggleTodoStatus(id, currentStatus) : currentStatus \in TaskStatus }

FilterChoices ==
  { [status |-> None, priority |-> None, search |-> None],
    [status |-> Some(PENDING), priority |-> None, search |-> Some(<< "B" >>)] }

SortChoices ==
  { [field |-> "createdAt", direction |-> "desc"],
    [field |-> "title", direction |-> "asc"] }

Rand == 1..NumRand

\* an id no create can produce: no body of a call runs at time 0
GhostId == generateId(0, 1)

StoredTodos == getTodosFromStorage(localStorage).todos

IdsOf(todos) == {todos[i].id : i \in 1..Len(todos)}

KnownIds(p) ==
  IdsOf(state.allTodos) \cup IdsOf(StoredTodos) \cup (IF p.ghost THEN {GhostId} ELSE {})

\* the two readings of the clock by createdAt: new Date(), updatedAt: new
\* Date(): one millisecond boundary may pass during the synchronous body
ClockReads(horizon) ==
  { r \in (now..Min(now + 1, horizon)) \X (now..Min(now + 1, horizon)) : r[1] <= r[2] }

----------------------------------------------------------------------------
\* Calls in flight and the history variables

NoReq == [id |-> None]

\* the last step was not the end of a container action
Quiet == [kind |-> "none", op |-> "none", req |-> NoReq, error |-> None]

InFlight == BagToSet(calls)

CreatesInFlight ==
  BagCardinality([c \in {d \in InFlight : d.op = "create"} |-> calls[c]])

\* the ids a request in flight names
IdsInFlight == {Val(c.req.id) : c \in {d \in InFlight : d.op \in {"update", "toggle", "delete"}}}

\* Math.random(): the random strings are interchangeable, only the equality
\* of two ids is ever observed, so the draw is either one of the values the
\* ids of this millisecond already carry or the least value none carries
RandomDraws ==
  LET used == {id[2] : id \in {k \in IdsOf(state.allTodos) \cup IdsOf(StoredTodos)
                                       \cup IdsInFlight : k[1] = now}}
  IN {r \in Rand : \A q \in 1..(r - 1) : q \in used}

\* the gateway call is issued: it first awaits delay(ms), which has not
\* elapsed before the clock has advanced
issue(op, req, p) ==
  /\ now < p.horizon
  /\ BagCardinality(calls) < p.inflight
  /\ calls' = calls (+) SetToBag({[op |-> op, req |-> req, elapsed |-> FALSE]})
  /\ ev' = Quiet

\* the timer of delay(ms) has fired
resumes(c, op) ==
  /\ c.op = op
  /\ c.elapsed
  /\ calls' = calls (-) SetToBag({c})

NoToggles == [n |-> 0]

\* tg after an update that replaced old by new: a request that flips the
\* stored status is a toggle; tg keeps the record before, between and after
\* the last two toggles that no other write separates
tgAfterUpdate(old, new, req) ==
  IF req = apiToggleTodoStatus(old.id, old.status)
    THEN IF tg.n = 1 /\ tg.id = old.id
           THEN [n |-> 2, id |-> old.id, r0 |-> tg.r0, r1 |-> tg.r1, r2 |-> new]
           ELSE IF tg.n = 2 /\ tg.id = old.id
                  THEN [n |-> 2, id |-> old.id, r0 |-> tg.r1, r1 |-> tg.r2, r2 |-> new]
                  ELSE [n |-> 1, id |-> old.id, r0 |-> old, r1 |-> new]
    ELSE NoToggles

----------------------------------------------------------------------------
\* Actions

\* a millisecond passes; no call remains in its delay for less than that
Tick(p) ==
  /\ now < p.horizon
  /\ now' = now + 1
  /\ calls' = [ d \in {[c EXCEPT !.elapsed = TRUE] : c \in InFlight} |->
                  CopiesIn(d, calls) + CopiesIn([d EXCEPT !.elapsed = FALSE], calls) ]
  /\ ev' = Quiet
  /\ UNCHANGED << localStorage, state, tg >>
  /\ UNCHANGED elsewhere

\* loadTodos up to its await
loadTodos(p) ==
  /\ issue("load", NoReq, p)
  /\ state' = dispatch(state, "SET_LOADING", TRUE)
  /\ UNCHANGED << now, localStorage, tg >>
  /\ UNCHANGED elsewhere

\* loadTodos from the return of todoApi.getTodos
loadTodosResume(c) ==
  /\ resumes(c, "load")
  /\ LET response == apiGetTodos(localStorage)
     IN /\ localStorage' = response.ls
        /\ state' = dispatch(state, "SET_TODOS",
                             [todos |-> response.data, stats |-> response.stats])
        /\ ev' = [kind |-> "ok", op |-> "load", req |-> NoReq, error |-> None]
  /\ UNCHANGED << now, tg >>
  /\ UNCHANGED elsewhere

\* createTodo up to its await
createTodoCalled(todo, p) ==
  /\ Len(StoredTodos) + CreatesInFlight < MaxTodos
  /\ issue("create", todo, p)
  /\ state' = dispatch(state, "SET_LOADING", TRUE)
  /\ UNCHANGED << now, localStorage, tg >>

createTodo(todo, p) ==
  /\ createTodoCalled(todo, p)
  /\ UNCHANGED elsewhere

\* createTodo from the return (or the throw) of todoApi.createTodo
createTodoReturns(c, p) ==
  /\ resumes(c, "create")
  /\ \E r \in ClockReads(p.horizon), rnd \in RandomDraws, canSave \in BOOLEAN :
       LET response == apiCreateTodo(localStorage, c.req, now, rnd, r[1], r[2], canSave)
       IN /\ now' = r[2]
          /\ localStorage' = response.ls
          /\ IF response.ok
               THEN /\ state' = dispatch(dispatch(state, "ADD_TODO", Val(response.data)),
                                         "SET_LOADING", FALSE)
                    /\ tg' = NoToggles
               ELSE /\ state' = dispatch(state, "SET_ERROR", Some(Val(response.error).message))
                    /\ tg' = tg
          /\ ev' = [kind |-> IF response.ok THEN "ok" ELSE "fail", op |-> "create",
                    req |-> c.req, error |-> response.error]

createTodoResume(c, p) ==
  /\ createTodoReturns(c, p)
  /\ UNCHANGED elsewhere

\* updateTodo up to its await
updateTodoCalled(todo, p) ==
  /\ issue("update", todo, p)
  /\ state' = dispatch(state, "SET_LOADING", TRUE)
  /\ UNCHANGED << now, localStorage, tg >>

updateTodo(todo, p) ==
  /\ updateTodoCalled(todo, p)
  /\ UNCHANGED elsewhere

\* toggleTodoStatus, had it always asked for the completed status
toggleTodoStatus_completes(id, p) ==
  /\ findIndex(state.allTodos, id) # 0
  /\ issue("toggle", [id |-> Some(id), title |-> None, description |-> None,
                      priority |-> None, status |-> Some(COMPLETED)], p)
  /\ state' = dispatch(state, "SET_LOADING", TRUE)
  /\ UNCHANGED << now, localStorage, tg >>
  /\ UNCHANGED elsewhere

\* toggleTodoStatus up to its await
toggleTodoStatus(id, p) ==
  /\ findIndex(state.allTodos, id) # 0
  /\ LET todo == state.allTodos[findIndex(state.allTodos, id)]
         newStatus == IF todo.status = PENDING THEN COMPLETED ELSE PENDING
     IN issue("toggle", [id |-> Some(id), title |-> None, description |-> None,
                         priority |-> None, status |-> Some(newStatus)], p)
  /\ state' = dispatch(state, "SET_LOADING", TRUE)
  /\ UNCHANGED << now, localStorage, tg >>
  /\ UNCHANGED elsewhere

\* updateTodo / toggleTodoStatus from the return (or the throw) of
\* todoApi.updateTodo
updateTodoReturns(c) ==
  /\ \/ resumes(c, "update")
     \/ resumes(c, "toggle")
  /\ \E canSave \in BOOLEAN :
       LET response == apiUpdateTodo(localStorage, c.req, now, canSave)
       IN /\ localStorage' = response.ls
          /\ IF response.ok
               THEN /\ state' = dispatch(dispatch(state, "UPDATE_TODO", Val(response.data)),
                                         "SET_LOADING", FALSE)
                    /\ tg' = tgAfterUpdate(
                                StoredTodos[findIndex(StoredTodos, Val(c.req.id))],
                                Val(response.data), c.req)
               ELSE /\ state' = dispatch(state, "SET_ERROR", Some(Val(response.error).message))
                    /\ tg' = tg
          /\ ev' = [kind |-> IF response.ok THEN "ok" ELSE "fail", op |-> c.op,
                    req |-> c.req, error |-> response.error]
  /\ UNCHANGED now

updateTodoResume(c) ==
  /\ updateTodoReturns(c)
  /\ UNCHANGED elsewhere

\* deleteTodo up to its await
deleteTodo(id, p) ==
  /\ issue("delete", [id |-> Some(id)], p)
  /\ state' = dispatch(state, "SET_LOADING", TRUE)
  /\ UNCHANGED << now, localStorage, tg >>
  /\ UNCHANGED elsewhere

\* deleteTodo from the return (or the throw) of todoApi.deleteTodo
deleteTodoResume(c) ==
  /\ resumes(c, "delete")
  /\ \E canSave \in BOOLEAN :
       LET response == apiDeleteTodo(localStorage, Val(c.req.id), canSave)
       IN /\ localStorage' = response.ls
          /\ IF response.ok
               THEN /\ state' = dispatch(dispatch(state, "DELETE_TODO", Val(c.req.id)),
                                         "SET_LOADING", FALSE)
                    /\ tg' = NoToggles
               ELSE /\ state' = dispatch(state, "SET_ERROR", Some(Val(response.error).message))
                    /\ tg' = tg
          /\ ev' = [kind |-> IF response.ok THEN "ok" ELSE "fail", op |-> "delete",
                    req |-> c.req, error |-> response.error]
  /\ UNCHANGED now
  /\ UNCHANGED elsewhere

setFilters(filters) ==
  /\ state' = dispatch(state, "SET_FILTERS", filters)
  /\ ev' = Quiet
  /\ UNCHANGED << now, localStorage, calls, tg >>
  /\ UNCHANGED elsewhere

setSort(sort) ==
  /\ state' = dispatch(state, "SET_SORT", sort)
  /\ ev' = Quiet
  /\ UNCHANGED << now, localStorage, calls, tg >>
  /\ UNCHANGED elsewhere

clearError ==
  /\ state' = dispatch(state, "SET_ERROR", None)
  /\ ev' = Quiet
  /\ UNCHANGED << now, localStorage, calls, tg >>
  /\ UNCHANGED elsewhere

-----------------------------------------------------------------------------
\* debounce (utils): const debounced = debounce(func, DebounceDelay)

DebounceDelay == 2            \* the delay handed to debounce, in clock units
DebounceArgs == {"x", "y", "z"}    \* the arguments a call of the debounced function carries

\* calls are made up to MaxTime, and the clock runs on for one more delay so
\* that the last timer can fire
Typing == [inflight |-> 1, horizon |-> MaxTime + DebounceDelay, ghost |-> FALSE]

\* timeoutId is the closure's variable: the pending timer with the call it
\* will make.  The other fields are history: the most recent call, the most
\* recent invocation of func, the invocations since the most recent call
\* (runs), the invocations since the current burst of calls began (burst),
\* whether the current burst has more than one call (repeated), and whether a
\* burst ever ended without any invocation (starved).  A burst is a maximal
\* run of calls each closer than DebounceDelay to the one before.
idleDebounced ==
  [ timeoutId |-> None, last |-> None, invoked |-> None,
    runs |-> 0, burst |-> 0, repeated |-> FALSE, starved |-> FALSE ]

continuesBurst ==
  IsSome(debounced.last) /\ now < Val(debounced.last).at + DebounceDelay

\* what a call adds to the history
called(args) ==
  [ debounced EXCEPT
      !.last = Some([at |-> now, args |-> args]),
      !.runs = 0,
      !.burst = IF continuesBurst THEN @ ELSE 0,
      !.repeated = continuesBurst,
      !.starved = @ \/ (IsSome(debounced.last) /\ ~continuesBurst /\ debounced.burst = 0) ]

\* a variant that leaves a pending timer in place instead of replacing it
callDebounced_keepsTimer(args) ==
  /\ now <= MaxTime
  /\ debounced' =
       [ called(args) EXCEPT
           !.timeoutId = IF IsSome(@) THEN @
                         ELSE Some([due |-> now + DebounceDelay, args |-> args]) ]
  /\ UNCHANGED << now, frontend, backend, form >>

\* (...args) => { clearTimeout(timeoutId); timeoutId = setTimeout(() => func(...args), delay) }
callDebounced(args) ==
  /\ now <= MaxTime
  /\ debounced' =
       [ called(args) EXCEPT
           !.timeoutId = Some([due |-> now + DebounceDelay, args |-> args]) ]
  /\ UNCHANGED << now, frontend, backend, form >>

\* the timer's callback: () => func(...args).  The event loop runs it once the
\* delay has elapsed, at that instant or later.
timerFires ==
  /\ IsSome(debounced.timeoutId)
  /\ now >= Val(debounced.timeoutId).due
  /\ debounced' =
       [ debounced EXCEPT
           !.timeoutId = None,
           !.invoked = Some([at |-> now, args |-> Val(debounced.timeoutId).args]),
           !.runs = @ + 1,
           !.burst = @ + 1 ]
  /\ UNCHANGED << now, frontend, backend, form >>

NextDebounce ==
  \/ Tick(Typing)
  \/ \E args \in DebounceArgs : callDebounced(args)
  \/ timerFires

-----------------------------------------------------------------------------
\* The HTTP+SQL service (api/todos.php, api/config/database.php,
\* api/database/schema.sql).  backend.rows is the todos table, backend.seq the
\* AUTOINCREMENT sequence, backend.reading a GET between its two queries,
\* backend.overlap the requests served since that GET began, and
\* backend.response the last response sent.  CURRENT_TIMESTAMP is now.

ServiceTime == 1   \* last clock value while the service is exercised
MaxPosts == 1      \* rows that POST requests insert at most
MaxOverlap == 1    \* requests served while a GET is between its two queries

Service == [inflight |-> 1, horizon |-> ServiceTime, ghost |-> FALSE]

Whitespace == {" "}

\* the first position from i on, and the last position up to i, that holds
\* no whitespace
RECURSIVE firstKept(_, _)
firstKept(s, i) == IF i > Len(s) \/ s[i] \notin Whitespace THEN i ELSE firstKept(s, i + 1)

RECURSIVE lastKept(_, _)
lastKept(s, i) == IF i = 0 \/ s[i] \notin Whitespace THEN i ELSE lastKept(s, i - 1)

\* PHP trim
trim(s) == SubSeq(s, firstKept(s, 1), lastKept(s, Len(s)))

\* PHP empty on a string
phpEmpty(s) == s = << >> \/ s = << "0" >>

\* a text of n characters
Text(n) == [i \in 1..n |-> "A"]

\* The rows of the schema's INSERT OR IGNORE.  The sample texts are abridged to
\* short strings, and the datetimes are numbered in their order:
\* '2024-01-14 09:00:00' is -6, '2024-01-14 15:30:00' is -5, and
\* '2024-01-15 10:30:00', 11:00:00, 12:00:00, 13:00:00 are -4, -3, -2, -1.
sampleRow(id, title, priority, status, created_at, updated_at) ==
  [ id |-> id, title |-> title, description |-> Some(<< "a" >>),
    priority |-> priority, status |-> status,
    created_at |-> created_at, updated_at |-> updated_at, completed_at |-> None ]

sampleData ==
  { sampleRow(1, << "A" >>, "high", "pending", -4, -4),
    sampleRow(2, << "B" >>, "medium", "pending", -3, -3),
    sampleRow(3, << "A", "b" >>, "low", "completed", -6, -5),
    sampleRow(4, << "B", "a" >>, "high", "pending", -2, -2),
    sampleRow(5, << "A", "A" >>, "medium", "pending", -1, -1) }

\* the database file before the first connection
freshDatabase ==
  [ rows |-> {}, seq |-> 0, reading |-> None, overlap |-> 0, response |-> None ]

\* the three AFTER UPDATE triggers, on the row as the statement left it
afterUpdate(old, new) ==
  [ new EXCEPT
      !.updated_at = IF new.updated_at = old.updated_at THEN now ELSE @,
      !.completed_at =
        IF new.status = "completed" /\ old.status # "completed" THEN Some(now)
        ELSE IF new.status # "completed" /\ old.status = "completed" THEN None
        ELSE @ ]

rowOf(rows, id) == CHOOSE r \in rows : r.id = id
hasRow(rows, id) == \E r \in rows : r.id = id

\* Database::getConnection, run by every request that reaches the database:
\* exec of the whole schema.sql (CREATE ... IF NOT EXISTS, INSERT OR IGNORE of
\* the sample rows, UPDATE todos SET completed_at = ... WHERE id = 3)
initializeSchema(db) ==
  LET inserted == db.rows \cup {r \in sampleData : ~hasRow(db.rows, r.id)}
      old == rowOf(inserted, 3)
      new == [old EXCEPT !.completed_at = Some(-5)]
  IN [ db EXCEPT !.rows = (inserted \ {old}) \cup {afterUpdate(old, new)},
                 !.seq = IF db.seq < 5 THEN 5 ELSE db.seq ]

sendResponse(code, data, stats) ==
  Some([ code |-> code, success |-> TRUE, error |-> << >>, data |-> data, stats |-> stats ])

sendError(messages, code) ==
  Some([ code |-> code, success |-> FALSE, error |-> messages, data |-> << >>, stats |-> None ])

validateTodo(data) ==
  (IF ~IsSome(data.title) \/ phpEmpty(trim(Val(data.title)))
     THEN << "Title is required" >>
   ELSE IF Len(trim(Val(data.title))) > 255
     THEN << "Title must be 255 characters or less" >>
   ELSE << >>)
  \o (IF ~IsSome(data.priority) \/ Val(data.priority) \notin {"high", "medium", "low"}
        THEN << "Priority must be one of: high, medium, low" >> ELSE << >>)
  \o (IF IsSome(data.status) /\ Val(data.status) \notin {"pending", "completed"}
        THEN << "Status must be one of: pending, completed" >> ELSE << >>)
  \o (IF IsSome(data.description) /\ Len(Val(data.description)) > 1000
        THEN << "Description must be 1000 characters or less" >> ELSE << >>)

\* $data decodes to an empty array
emptyBody(data) == \A f \in DOMAIN data : data[f] = None

\* the bodies and query strings of the requests sent
noBody == [ title |-> None, description |-> None, priority |-> None, status |-> None ]
draft == [ noBody EXCEPT !.title = Some(<< " ", "A", " " >>), !.priority = Some("high") ]

PostBodies ==
  { noBody,
    draft,
    [draft EXCEPT !.status = Some("completed")],
    [draft EXCEPT !.status = Some("done")],
    [draft EXCEPT !.title = None],
    [draft EXCEPT !.title = Some(<< " " >>)],
    [draft EXCEPT !.title = Some(Text(256))],
    [draft EXCEPT !.description = Some(Text(1001))],
    [draft EXCEPT !.priority = None],
    [draft EXCEPT !.priority = Some("urgent"), !.description = Some(Text(1001))] }

PutBodies ==
  { [ id |-> id, title |-> patch.title, description |-> patch.description,
      priority |-> patch.priority, status |-> patch.status ] :
    id \in {None, Some(3), Some(9)},
    patch \in { noBody,
                [noBody EXCEPT !.title = Some(<< " " >>)],
                [noBody EXCEPT !.title = Some(Text(256))],
                [noBody EXCEPT !.description = Some(Text(1001))],
                [noBody EXCEPT !.priority = Some("urgent")],
                [noBody EXCEPT !.status = Some("done")],
                [noBody EXCEPT !.status = Some("pending")],
                [noBody EXCEPT !.status = Some("completed")] } }

DeleteBodies == [ id : {None, Some(3), Some(6)} ]

GetQueries ==
  { [ status |-> None, priority |-> None, search |-> None, sort |-> None, direction |-> None ],
    [ status |-> Some("completed"), priority |-> Some("low"), search |-> Some(<< "b" >>),
      sort |-> Some("priority"), direction |-> Some("asc") ] }

\* a request that is served while a GET is between its two queries
admitted == backend.reading = None \/ backend.overlap < MaxOverlap
overlapping(db) == [db EXCEPT !.overlap = IF db.reading = None THEN 0 ELSE @ + 1]

\* POST
httpCreateTodo(data) ==
  /\ backend.seq < 5 + MaxPosts
  /\ admitted
  /\ backend' = overlapping(
       IF emptyBody(data)
         THEN [backend EXCEPT !.response = sendError(<< "Invalid JSON data" >>, 400)]
       ELSE IF validateTodo(data) # << >>
         THEN [backend EXCEPT !.response = sendError(validateTodo(data), 400)]
       ELSE
         LET db == initializeSchema(backend)
             todo == [ id |-> db.seq + 1,
                       title |-> trim(Val(data.title)),
                       description |-> IF IsSome(data.description)
                                         THEN Some(trim(Val(data.description))) ELSE None,
                       priority |-> Val(data.priority),
                       status |-> IF IsSome(data.status) THEN Val(data.status) ELSE "pending",
                       created_at |-> now, updated_at |-> now, completed_at |-> None ]
         IN [ db EXCEPT !.rows = db.rows \cup {todo},
                        !.seq = db.seq + 1,
                        !.response = sendResponse(201, << todo >>, None) ])
  /\ UNCHANGED << now, frontend, debounced, form >>

\* PUT
httpUpdateTodo(data) ==
  /\ admitted
  /\ backend' = overlapping(
       IF emptyBody(data)
         THEN [backend EXCEPT !.response = sendError(<< "Invalid JSON data" >>, 400)]
       ELSE IF ~IsSome(data.id)
         THEN [backend EXCEPT !.response = sendError(<< "Todo ID is required" >>, 400)]
       ELSE
         LET db == initializeSchema(backend)
             id == Val(data.id)
             old == rowOf(db.rows, id)
             new == [ old EXCEPT
                        !.title = IF IsSome(data.title) THEN trim(Val(data.title)) ELSE @,
                        !.description = IF IsSome(data.description)
                                          THEN Some(trim(Val(data.description))) ELSE @,
                        !.priority = IF IsSome(data.priority) THEN Val(data.priority) ELSE @,
                        !.status = IF IsSome(data.status) THEN Val(data.status) ELSE @ ]
             todo == afterUpdate(old, new)
         IN IF ~hasRow(db.rows, id)
              THEN [db EXCEPT !.response = sendError(<< "Todo not found" >>, 404)]
            ELSE IF IsSome(data.title) /\ phpEmpty(trim(Val(data.title)))
              THEN [db EXCEPT !.response = sendError(<< "Title cannot be empty" >>, 400)]
            ELSE IF IsSome(data.priority) /\ Val(data.priority) \notin {"high", "medium", "low"}
              THEN [db EXCEPT !.response = sendError(<< "Invalid priority value" >>, 400)]
            ELSE IF IsSome(data.status) /\ Val(data.status) \notin {"pending", "completed"}
              THEN [db EXCEPT !.response = sendError(<< "Invalid status value" >>, 400)]
            ELSE IF \A f \in {"title", "description", "priority", "status"} : data[f] = None
              THEN [db EXCEPT !.response = sendError(<< "No fields to update" >>, 400)]
            ELSE [ db EXCEPT !.rows = (db.rows \ {old}) \cup {todo},
                             !.response = sendResponse(200, << todo >>, None) ])
  /\ UNCHANGED << now, frontend, debounced, form >>

\* DELETE
httpDeleteTodo(data) ==
  /\ admitted
  /\ backend' = overlapping(
       IF ~IsSome(data.id)
         THEN [backend EXCEPT !.response = sendError(<< "Todo ID is required" >>, 400)]
       ELSE
         LET db == initializeSchema(backend)
             id == Val(data.id)
         IN IF ~hasRow(db.rows, id)
              THEN [db EXCEPT !.response = sendError(<< "Todo not found" >>, 404)]
            ELSE [ db EXCEPT !.rows = db.rows \ {rowOf(db.rows, id)},
                             !.response = sendResponse(200, << >>, None) ])
  /\ UNCHANGED << now, frontend, debounced, form >>

\* x LIKE '%sub%': containment that ignores the case of ASCII letters
sqlLike(x, sub) ==
  \E i \in 0..(Len(x) - Len(sub)) :
    \A j \in 1..Len(sub) : toLowerChar(x[i + j]) = toLowerChar(sub[j])

\* the WHERE clause getTodos builds from the query string
selects(q, r) ==
  /\ (IsSome(q.status) /\ Val(q.status) \in {"pending", "completed"})
       => r.status = Val(q.status)
  /\ (IsSome(q.priority) /\ Val(q.priority) \in {"high", "medium", "low"})
       => r.priority = Val(q.priority)
  /\ (IsSome(q.search) /\ ~phpEmpty(trim(Val(q.search))))
       => \/ sqlLike(r.title, trim(Val(q.search)))
          \/ IsSome(r.description) /\ sqlLike(Val(r.description), trim(Val(q.search)))

sortFieldOf(q) ==
  IF IsSome(q.sort) /\ Val(q.sort) \in {"title", "priority", "status", "created_at", "updated_at"}
    THEN Val(q.sort) ELSE "created_at"

sortDirectionOf(q) == IF q.direction = Some("asc") THEN "ASC" ELSE "DESC"

priorityCase(p) == CASE p = "high" -> 1 [] p = "medium" -> 2 [] p = "low" -> 3

\* a sorts strictly before b under ORDER BY field ASC
sqlBefore(a, b, field) ==
  CASE field = "priority" -> priorityCase(a.priority) < priorityCase(b.priority)
    [] field = "title" -> StrLess(a.title, b.title)
    [] field = "status" -> a.status = "completed" /\ b.status = "pending"
    [] field = "created_at" -> a.created_at < b.created_at
    [] field = "updated_at" -> a.updated_at < b.updated_at

\* every order ORDER BY may return the rows in: rows with equal keys come in
\* an order SQL leaves open
RECURSIVE orderBy(_, _, _)
orderBy(rows, field, direction) ==
  IF rows = {} THEN {<< >>}
  ELSE LET firsts == {r \in rows : \A o \in rows :
                        ~(IF direction = "ASC" THEN sqlBefore(o, r, field)
                          ELSE sqlBefore(r, o, field))}
       IN UNION {{<< r >> \o rest : rest \in orderBy(rows \ {r}, field, direction)}
                 : r \in firsts}

\* the statistics query
sqlStats(rows) ==
  [ total |-> Cardinality(rows),
    completed |-> Cardinality({r \in rows : r.status = "completed"}),
    pending |-> Cardinality({r \in rows : r.status = "pending"}),
    byPriority |->
      [ high |-> Cardinality({r \in rows : r.priority = "high"}),
        medium |-> Cardinality({r \in rows : r.priority = "medium"}),
        low |-> Cardinality({r \in rows : r.priority = "low"}) ] ]

\* GET up to the end of its first query
httpGetTodos(q) ==
  /\ backend.reading = None
  /\ LET db == initializeSchema(backend)
     IN \E todos \in orderBy({r \in db.rows : selects(q, r)}, sortFieldOf(q), sortDirectionOf(q)) :
          backend' = [db EXCEPT !.reading = Some(todos), !.overlap = 0]
  /\ UNCHANGED << now, frontend, debounced, form >>

\* GET from its statistics query to the response
httpGetTodosStats ==
  /\ backend.reading # None
  /\ backend' = [ backend EXCEPT
                    !.reading = None,
                    !.overlap = 0,
                    !.response = sendResponse(200, Val(backend.reading),
                                              Some(sqlStats(backend.rows))) ]
  /\ UNCHANGED << now, frontend, debounced, form >>

NextBackend ==
  \/ Tick(Service)
  \/ \E data \in PostBodies : httpCreateTodo(data)
  \/ \E data \in PutBodies : httpUpdateTodo(data)
  \/ \E data \in DeleteBodies : httpDeleteTodo(data)
  \/ \E q \in GetQueries : httpGetTodos(q)
  \/ httpGetTodosStats

----------------------------------------------------------------------------
\* TodoStats (components/TodoStats.tsx)

\* Math.round(x / y) for y > 0: the integer nearest to x / y, a half rounded up
roundRatio(x, y) == (2 * x + y) \div (2 * y)

completionPercentage(stats) ==
  IF stats.total > 0 THEN roundRatio(100 * stats.completed, stats.total) ELSE 0

----------------------------------------------------------------------------
\* TodoForm (components/TodoForm.tsx), rendered by TodoApp to add a record and
\* by a TodoItem to edit one

emptyFormData == [title |-> << >>, description |-> << >>, priority |-> "medium"]

\* errors = {}: no key is present
noErrors == [title |-> None, description |-> None, priority |-> None, submit |-> None]

\* no form is rendered
closedForm ==
  [ shown |-> FALSE, initialData |-> None, formData |-> emptyFormData,
    errors |-> noErrors, isSubmitting |-> FALSE ]

isValidString(value) == Len(trim(value)) > 0

validateForm(data) ==
  [ title |-> IF ~isValidString(data.title)
                THEN Some("Title is required")
                ELSE IF Len(data.title) > 255
                       THEN Some("Title must be less than 255 characters")
                       ELSE None,
    description |-> IF Len(data.description) > 1000
                      THEN Some("Description must be less than 1000 characters")
                      ELSE None,
    priority |-> IF data.priority \notin Priority
                   THEN Some("Please select a valid priority")
                   ELSE None,
    submit |-> None ]

\* what the user enters in a field
FieldValues ==
  [ title |-> { << >>, << " " >>, << "A" >>, Text(256) },
    description |-> { << >>, << "a", "B" >> },
    priority |-> Priority ]

\* formData.description || undefined
orUndefined(s) == IF s = << >> THEN None ELSE Some(s)

\* a step of the form alone
formOnly ==
  /\ ev' = Quiet
  /\ UNCHANGED << now, localStorage, state, calls, tg, backend, debounced >>

\* TodoApp.handleAddTodo: the form is mounted without initialData
handleAddTodo ==
  /\ ~form.shown
  /\ form' = [closedForm EXCEPT !.shown = TRUE]
  /\ formOnly

\* the edit button of the TodoItem of todo: the form is mounted with
\* initialData = todo, and its effect copies the record into formData
handleEdit(todo) ==
  /\ ~form.shown
  /\ form' = [ closedForm EXCEPT
                 !.shown = TRUE,
                 !.initialData = Some(todo.id),
                 !.formData = [ title |-> todo.title,
                                description |-> IF IsSome(todo.description)
                                                  THEN Val(todo.description)
                                                  ELSE << >>,
                                priority |-> todo.priority ] ]
  /\ formOnly

handleFieldChange(field, value) ==
  /\ form.shown
  /\ ~form.isSubmitting
  /\ form' = [ form EXCEPT
                 !.formData[field] = value,
                 !.errors[field] = IF @ \notin {None, Some("")} THEN Some("") ELSE @ ]
  /\ formOnly

\* handleSubmit up to its await
handleSubmit(p) ==
  /\ form.shown
  /\ ~form.isSubmitting
  /\ LET validationErrors == validateForm(form.formData)
     IN IF validationErrors # noErrors
          THEN /\ form' = [form EXCEPT !.errors = validationErrors]
               /\ formOnly
          ELSE /\ form' = [form EXCEPT !.isSubmitting = TRUE, !.errors = noErrors]
               /\ IF IsSome(form.initialData)
                    THEN updateTodoCalled(
                           [ id |-> form.initialData,
                             title |-> Some(form.formData.title),
                             description |-> Some(orUndefined(form.formData.description)),
                             priority |-> Some(form.formData.priority),
                             status |-> None ], p)
                    ELSE createTodoCalled(
                           [ title |-> form.formData.title,
                             description |-> orUndefined(form.formData.description),
                             priority |-> form.formData.priority ], p)
               /\ UNCHANGED << backend, debounced >>

\* whether the promise of actions.createTodo / actions.updateTodo rejects:
\* each action catches what the gateway throws, dispatches SET_ERROR and
\* returns
actionRejects(response) == FALSE

\* handleSubmit from the return of the awaited action: the try block goes on
\* when the promise is fulfilled, the catch block runs when it is rejected
handleSubmitContinues ==
  form' = IF actionRejects(ev')
            THEN [ form EXCEPT
                     !.errors = [noErrors EXCEPT !.submit = Some("Failed to save todo")],
                     !.isSubmitting = FALSE ]
            ELSE closedForm

\* the awaited action and, in the same turn of the event loop, the rest of
\* handleSubmit
handleSubmitResume(p) ==
  /\ form.isSubmitting
  /\ \E c \in InFlight :
       \/ createTodoReturns(c, p)
       \/ updateTodoReturns(c)
  /\ handleSubmitContinues
  /\ UNCHANGED << backend, debounced >>

handleCancel ==
  /\ form.shown
  /\ ~form.isSubmitting
  /\ form' = closedForm
  /\ formOnly

\* one form, whose buttons are disabled while it submits
Submitting == [inflight |-> 1, horizon |-> ParTime, ghost |-> FALSE]

NextForm ==
  \/ Tick(Submitting)
  \/ handleAddTodo
  \/ \E i \in 1..Len(state.todos) : handleEdit(state.todos[i])
  \/ \E field \in DOMAIN FieldValues : \E value \in FieldValues[field] :
       handleFieldChange(field, value)
  \/ handleSubmit(Submitting)
  \/ handleSubmitResume(Submitting)
  \/ handleCancel

----------------------------------------------------------------------------
\* Specifications

\* a record an earlier session of the application created and later completed
PersistedTodo ==
  [ id |-> generateId(-2, 1),
    title |-> << "a", "B" >>,
    description |-> None,
    priority |-> "medium",
    status |-> COMPLETED,
    createdAt |-> -2,
    updatedAt |-> -1,
    completedAt |-> Some(-1) ]

\* what localStorage holds under STORAGE_KEY when the application starts:
\* nothing, or what an earlier session saved
InitialStorage == { None, saveTodosToStorage(<< PersistedTodo >>) }

Init ==
  /\ now = 0
  /\ localStorage \in InitialStorage
  /\ state = initialState
  /\ calls = EmptyBag
  /\ ev = Quiet
  /\ tg = NoToggles
  /\ backend = freshDatabase
  /\ debounced = idleDebounced
  /\ form = closedForm

Resume(p) ==
  \E c \in InFlight :
    \/ loadTodosResume(c)
    \/ createTodoResume(c, p)
    \/ updateTodoResume(c)
    \/ deleteTodoResume(c)

Configure ==
  \/ \E filters \in FilterChoices : setFilters(filters)
  \/ \E sort \in SortChoices : setSort(sort)
  \/ clearError

\* one actor that starts an action only after the previous one has ended
Next ==
  \/ Tick(OneActor)
  \/ loadTodos(OneActor)
  \/ \E todo \in CreateChoices : createTodo(todo, OneActor)
  \/ \E id \in KnownIds(OneActor) : \E todo \in UpdateChoices(id) : updateTodo(todo, OneActor)
  \/ \E id \in KnownIds(OneActor) : deleteTodo(id, OneActor)
  \/ \E id \in KnownIds(OneActor) : toggleTodoStatus(id, OneActor)
  \/ Resume(OneActor)
  \/ Configure

Spec == Init /\ [][Next]_vars

\* every timer of delay(ms) fires and every gateway call whose delay has
\* elapsed returns or throws
Fairness ==
  /\ WF_vars(Tick(OneActor))
  /\ WF_vars(Resume(OneActor))

SpecFair == Spec /\ Fairness

\* actions may be started while others are in flight
NextPar ==
  \/ Tick(Overlapping)
  \/ loadTodos(Overlapping)
  \/ \E todo \in CreateChoices : createTodo(todo, Overlapping)
  \/ \E id \in KnownIds(Overlapping) : \E todo \in UpdateChoices(id) : updateTodo(todo, Overlapping)
  \/ \E id \in KnownIds(Overlapping) : deleteTodo(id, Overlapping)
  \/ \E id \in KnownIds(Overlapping) : toggleTodoStatus(id, Overlapping)
  \/ Resume(Overlapping)
  \/ Configure

SpecPar == Init /\ [][NextPar]_vars

----------------------------------------------------------------------------
\* The query engine on its own: a stored collection has been loaded, and the
\* filters and the sort are then replaced at will

\* records over which the collections range: both statuses, the three
\* priorities, titles that differ in case only, an absent, an empty and a
\* mixed-case description, equal and different creation times
QueryRecords ==
  { [ id |-> generateId(1, 1), title |-> << "A" >>, description |-> None,
      priority |-> "high", status |-> PENDING,
      createdAt |-> 1, updatedAt |-> 1, completedAt |-> None ],
    [ id |-> generateId(1, 2), title |-> << "b" >>, description |-> Some(<< "a", "B" >>),
      priority |-> "low", status |-> COMPLETED,
      createdAt |-> 1, updatedAt |-> 3, completedAt |-> Some(3) ],
    [ id |-> generateId(2, 1), title |-> << "B", "a" >>, description |-> Some(<< >>),
      priority |-> "medium", status |-> PENDING,
      createdAt |-> 2, updatedAt |-> 2, completedAt |-> None ],
    [ id |-> generateId(2, 2), title |-> << "a" >>, description |-> Some(<< "b" >>),
      priority |-> "high", status |-> COMPLETED,
      createdAt |-> 2, updatedAt |-> 2, completedAt |-> Some(2) ] }

Collections == UNION { [1..n -> QueryRecords] : n \in 0..MaxCollection }

QueryFilters ==
  [ status : {None} \cup {Some(s) : s \in TaskStatus},
    priority : {None} \cup {Some(p) : p \in Priority},
    search : {None, Some(<< >>), Some(<< "B" >>), Some(<< "a", "b" >>)} ]

QuerySorts ==
  [ field : {"title", "priority", "createdAt", "updatedAt"},
    direction : {"asc", "desc"} ]

\* the state after the load of a stored collection
InitQuery ==
  /\ now = 0
  /\ calls = EmptyBag
  /\ ev = Quiet
  /\ tg = NoToggles
  /\ backend = freshDatabase
  /\ debounced = idleDebounced
  /\ form = closedForm
  /\ \E collection \in Collections :
       /\ localStorage = saveTodosToStorage(collection)
       /\ state = dispatch(initialState, "SET_TODOS",
                           [todos |-> apiGetTodos(localStorage).data,
                            stats |-> apiGetTodos(localStorage).stats])

NextQuery ==
  \/ \E filters \in QueryFilters : setFilters(filters)
  \/ \E sort \in QuerySorts : setSort(sort)

SpecQuery == InitQuery /\ [][NextQuery]_vars

\* the application started over an item that cannot be parsed
InitCorrupt ==
  /\ now = 0
  /\ localStorage = Unparsable
  /\ state = initialState
  /\ calls = EmptyBag
  /\ ev = Quiet
  /\ tg = NoToggles
  /\ backend = freshDatabase
  /\ debounced = idleDebounced
  /\ form = closedForm

SpecCorrupt == InitCorrupt /\ [][Next]_vars

\* the application once its first load has completed, with overlapping actions
\* from then on
InitLoaded ==
  /\ now = 0
  /\ localStorage \in {getTodosFromStorage(ls).ls : ls \in InitialStorage}
  /\ state = dispatch(initialState, "SET_TODOS",
                      [todos |-> apiGetTodos(localStorage).data,
                       stats |-> apiGetTodos(localStorage).stats])
  /\ calls = EmptyBag
  /\ ev = [kind |-> "ok", op |-> "load", req |-> NoReq, error |-> None]
  /\ tg = NoToggles
  /\ backend = freshDatabase
  /\ debounced = idleDebounced
  /\ form = closedForm

SpecLoaded == InitLoaded /\ [][NextPar]_vars

\* the form, in an application that has loaded
SpecForm == InitLoaded /\ [][NextForm]_vars

\* the service and the debounced function, each exercised on its own, beside
\* an application that has not started
InitElsewhere == Init /\ localStorage = None

SpecBackend == InitElsewhere /\ [][NextBackend]_vars

SpecDebounce == InitElsewhere /\ [][NextDebounce]_vars

----------------------------------------------------------------------------
\* The filter controls (components/TodoFilters.tsx), rendered by TodoApp with
\* filters = state.filters, sort = state.sort, onFiltersChange = setFilters
\* and onSortChange = setSort

\* what can be typed into the search box
SearchInputs == { << >>, << "B" >>, << "a", "b" >> }

handleSearchChange(value) ==
  setFilters([ state.filters EXCEPT
                 !.search = IF value # << >> THEN Some(value) ELSE None ])

\* the status handler, had it not spread the current filters
handleStatusFilter_dropsOthers(status) ==
  setFilters([status |-> status, priority |-> None, search |-> None])

\* status is None for the button All
handleStatusFilter(status) == setFilters([state.filters EXCEPT !.status = status])

\* priority is None for the button All Priorities
handlePriorityFilter(priority) == setFilters([state.filters EXCEPT !.priority = priority])

\* the sort handler, had it flipped the direction whatever the field
handleSortChange_flips(field) ==
  setSort([ field |-> field,
            direction |-> IF state.sort.direction = "desc" THEN "asc" ELSE "desc" ])

handleSortChange(field) ==
  LET newDirection == IF state.sort.field = field /\ state.sort.direction = "desc"
                        THEN "asc" ELSE "desc"
  IN setSort([field |-> field, direction |-> newDirection])

hasActiveFilters ==
  \/ IsSome(state.filters.search) /\ Val(state.filters.search) # << >>
  \/ IsSome(state.filters.status)
  \/ IsSome(state.filters.priority)

\* the button Clear, rendered when a filter is active
clearFilters ==
  /\ hasActiveFilters
  /\ setFilters([status |-> None, priority |-> None, search |-> None])

NextControls ==
  \/ \E value \in SearchInputs : handleSearchChange(value)
  \/ \E status \in {None} \cup {Some(s) : s \in TaskStatus} : handleStatusFilter(status)
  \/ \E priority \in {None} \cup {Some(p) : p \in Priority} : handlePriorityFilter(priority)
  \/ \E field \in {"createdAt", "updatedAt", "title", "priority"} : handleSortChange(field)
  \/ clearFilters

SpecControls == InitQuery /\ [][NextControls]_vars

----------------------------------------------------------------------------
\* Properties

\* the records in storage after the step
StoredTodosNext == getTodosFromStorage(localStorage').todos

\* the step ends a container action whose gateway call returned
EndsOk(ops) == ev'.kind = "ok" /\ ev'.op \in ops
\* the step ends a container action whose gateway call threw
EndsFailed(ops) == ev'.kind = "fail" /\ ev'.op \in ops

\* the stored record a request names, before and after the step
StoredBefore(req) == StoredTodos[findIndex(StoredTodos, Val(req.id))]
StoredAfter(req) == StoredTodosNext[findIndex(StoredTodosNext, Val(req.id))]

\* C1: in every reachable state the stats field equals the aggregate over
\* the canonical collection allTodos (total, completed, pending, byPriority).
C1_StatsAreAggregate == state.stats = calculateStats(state.allTodos)

\* C2: in every reachable state the derived view state.todos is the query
\* engine applied to allTodos with the current filters and the current sort.
C2_ViewIsQuery ==
  state.todos = filterAndSortTodos(state.allTodos, state.filters, state.sort)

\* an update has just changed a record under a filter that hides a record
C2_Witness ==
  /\ ev.kind = "ok" /\ ev.op \in {"update", "toggle"}
  /\ IsSome(state.filters.status)
  /\ Len(state.allTodos) = 2
  /\ Len(state.todos) = 1

\* C3: every record in storage has completedAt present exactly when its
\* status is completed.
C3_CompletedAtIffCompleted ==
  \A i \in 1..Len(StoredTodos) :
    IsSome(StoredTodos[i].completedAt) <=> StoredTodos[i].status = COMPLETED

\* a completed record has just been reopened
C3_Witness ==
  /\ ev.kind = "ok" /\ ev.op \in {"update", "toggle"}
  /\ ev.req.status = Some(PENDING)
  /\ tg.n = 2

\* C4: a successful gateway update stamps completedAt with the time of the
\* update, which is not before the record's previous updatedAt, when the
\* merged status is completed and the stored one was not; clears it when the
\* merged status is pending; and keeps it otherwise, in particular when the
\* request carries no status.
C4_CompletionRule ==
  [][ EndsOk({"update", "toggle"}) =>
        LET old == StoredBefore(ev'.req)
            new == StoredAfter(ev'.req)
        IN /\ (new.status = COMPLETED /\ old.status # COMPLETED) =>
                (new.completedAt = Some(new.updatedAt) /\ new.updatedAt >= old.updatedAt)
           /\ new.status = PENDING => new.completedAt = None
           /\ (new.status = COMPLETED /\ old.status = COMPLETED) =>
                new.completedAt = old.completedAt
           /\ ~IsSome(ev'.req.status) => new.completedAt = old.completedAt ]_vars

\* a record completed earlier has just been updated to completed again
C4_Witness ==
  /\ ev.kind = "ok" /\ ev.op = "update"
  /\ ev.req.status = Some(COMPLETED)
  /\ \E i \in 1..Len(StoredTodos) :
       /\ StoredTodos[i].id = Val(ev.req.id)
       /\ StoredTodos[i].updatedAt = now
       /\ IsSome(StoredTodos[i].completedAt)
       /\ Val(StoredTodos[i].completedAt) < now

\* two records agree on the fields the named ones aside
SameBut(a, b, fields) ==
  \A f \in (DOMAIN a) \ fields : a[f] = b[f]

\* C5 as stated: two toggles in succession return status, completedAt and
\* every other field to their values before the first toggle, except
\* updatedAt, which strictly increases at each toggle.
C5_ToggleTwiceRestoresAll ==
  tg.n = 2 =>
    /\ SameBut(tg.r2, tg.r0, {"updatedAt"})
    /\ tg.r0.updatedAt < tg.r1.updatedAt
    /\ tg.r1.updatedAt < tg.r2.updatedAt

\* C5 as amended: two toggles in succession return status and every field
\* other than updatedAt and completedAt to their values before the first
\* toggle; updatedAt strictly increases at each toggle; completedAt is absent
\* again for a record that was pending, and is the time of the second toggle
\* for a record that was completed.
C5_ToggleTwice ==
  tg.n = 2 =>
    /\ SameBut(tg.r2, tg.r0, {"updatedAt", "completedAt"})
    /\ tg.r0.updatedAt < tg.r1.updatedAt
    /\ tg.r1.updatedAt < tg.r2.updatedAt
    /\ tg.r0.status = PENDING => tg.r2.completedAt = None
    /\ tg.r0.status = COMPLETED => tg.r2.completedAt = Some(tg.r2.updatedAt)

\* a record that was completed has been toggled twice
C5_Witness ==
  /\ tg.n = 2
  /\ tg.r0.status = COMPLETED
  /\ tg.r2.status = COMPLETED

\* C6 as stated: after a successful gateway create, list returns the
\* previous records plus exactly one new record, which has status pending,
\* no completedAt, and createdAt equal to updatedAt.
C6_CreateThenList ==
  [][ EndsOk({"create"}) =>
        LET before == apiGetTodos(localStorage).data
            after == apiGetTodos(localStorage').data
        IN /\ Len(after) = Len(before) + 1
           /\ SubSeq(after, 1, Len(before)) = before
           /\ after[Len(after)].status = PENDING
           /\ after[Len(after)].completedAt = None
           /\ after[Len(after)].createdAt = after[Len(after)].updatedAt ]_vars

NoTwoShareId(todos) ==
  \A i, j \in 1..Len(todos) : i # j => todos[i].id # todos[j].id

\* C7 as stated: no two records of the backing store and no two records of
\* the canonical collection share an id.
C7_IdsUnique == NoTwoShareId(StoredTodos) /\ NoTwoShareId(state.allTodos)

\* C8 as stated: every stored record has updatedAt >= createdAt, and every
\* successful update of a record changes its updatedAt and leaves its
\* createdAt unchanged.
C8_UpdatedAtMoves ==
  [][ /\ \A i \in 1..Len(StoredTodosNext) :
           StoredTodosNext[i].updatedAt >= StoredTodosNext[i].createdAt
      /\ EndsOk({"update", "toggle"}) =>
           /\ StoredAfter(ev'.req).updatedAt # StoredBefore(ev'.req).updatedAt
           /\ StoredAfter(ev'.req).createdAt = StoredBefore(ev'.req).createdAt ]_vars

\* the step ends an update, a toggle or a remove
EndsAny(ops) == EndsOk(ops) \/ EndsFailed(ops)

\* C9: an update or a remove that names an id no stored record carries
\* fails with the error (404, 'Todo not found') and leaves the stored
\* records, the canonical collection and the stats as they were.
C9_NotFound ==
  [][ ( /\ EndsAny({"update", "toggle", "delete"})
        /\ Val(ev'.req.id) \notin IdsOf(StoredTodos) ) =>
        /\ ev'.kind = "fail"
        /\ ev'.error = Some(ApiError("Todo not found", 404))
        /\ state'.error = Some("Todo not found")
        /\ StoredTodosNext = StoredTodos
        /\ state'.allTodos = state.allTodos
        /\ state'.stats = state.stats ]_vars

\* a remove of an unknown id has just failed while records exist
C9_Witness ==
  /\ ev.kind = "fail" /\ ev.op = "delete"
  /\ ev.error = Some(ApiError("Todo not found", 404))
  /\ Len(StoredTodos) > 0
  /\ Len(state.allTodos) > 0

\* C10: a container action whose gateway call throws ends with isLoading
\* false and error the message of the failure and changes nothing else of
\* the state, and starting the action changed nothing but isLoading.
C10_FailureIsCaught ==
  [][ /\ EndsFailed({"load", "create", "update", "toggle", "delete"}) =>
           state' = [state EXCEPT !.isLoading = FALSE,
                                  !.error = Some(Val(ev'.error).message)]
      /\ BagCardinality(calls') > BagCardinality(calls) =>
           state' = [state EXCEPT !.isLoading = TRUE] ]_vars

\* a create has just failed while records exist: the records are kept, the
\* error is the message of the failure and isLoading is false again
C10_Witness ==
  /\ ev.kind = "fail" /\ ev.op = "create"
  /\ state.error = Some("Failed to create todo")
  /\ ~state.isLoading
  /\ Len(state.allTodos) > 0
  /\ Len(state.todos) > 0

\* C11: actions in flight at the same time do not interleave their effects
\* on the canonical collection: what they leave is what running them one
\* after the other would leave, and no value read before another action's
\* write is merged over that write.  For toggleStatus this means that the
\* status it writes, the opposite of the one it read when it was invoked,
\* is still the opposite of the stored status when it is written: a toggle
\* that succeeds flips the stored status.
C11_NoStaleMerge ==
  [][ EndsOk({"toggle"}) =>
        StoredAfter(ev'.req).status # StoredBefore(ev'.req).status ]_vars

\* the records of todos but for the one at index at
Without(todos, at) == SubSeq(todos, 1, at - 1) \o SubSeq(todos, at + 1, Len(todos))

\* C12: a successful create appends the returned record as the last element
\* of the canonical collection, recomputes the derived view and adds one to
\* stats.total, stats.pending and the byPriority counter of the record's
\* priority; stats.completed and the other counters keep their values.
C12_CreateAppends ==
  [][ EndsOk({"create"}) =>
        LET record == StoredTodosNext[Len(StoredTodosNext)]
        IN /\ state'.allTodos = Append(state.allTodos, record)
           /\ state'.todos =
                filterAndSortTodos(state'.allTodos, state.filters, state.sort)
           /\ state'.stats.total = state.stats.total + 1
           /\ state'.stats.pending = state.stats.pending + 1
           /\ state'.stats.completed = state.stats.completed
           /\ \A p \in Priority :
                state'.stats.byPriority[p] =
                  state.stats.byPriority[p] + (IF p = record.priority THEN 1 ELSE 0) ]_vars

\* a second record has just been created under a filter that hides it
C12_Witness ==
  /\ ev.kind = "ok" /\ ev.op = "create"
  /\ Len(state.allTodos) = 2
  /\ state.allTodos[2].priority = "low"
  /\ state.stats.byPriority["low"] = 1
  /\ state.stats.total = 2
  /\ Len(state.todos) < 2

\* C13: a successful remove of an id takes exactly the record with that id
\* out of the canonical collection, the others keeping their order,
\* recomputes the derived view, and subtracts one from stats.total, from the
\* pending or completed counter of the status the record had in the
\* collection, and from the byPriority counter of its priority.
C13_RemoveDrops ==
  [][ ( /\ EndsOk({"delete"})
        /\ Val(ev'.req.id) \in IdsOf(state.allTodos) ) =>
        LET at == findIndex(state.allTodos, Val(ev'.req.id))
            removed == state.allTodos[at]
        IN /\ state'.allTodos = Without(state.allTodos, at)
           /\ Val(ev'.req.id) \notin IdsOf(state'.allTodos)
           /\ state'.todos =
                filterAndSortTodos(state'.allTodos, state.filters, state.sort)
           /\ state'.stats.total = state.stats.total - 1
           /\ \A s \in TaskStatus :
                state'.stats[s] = state.stats[s] - (IF s = removed.status THEN 1 ELSE 0)
           /\ \A p \in Priority :
                state'.stats.byPriority[p] =
                  state.stats.byPriority[p] - (IF p = removed.priority THEN 1 ELSE 0) ]_vars

\* the completed record of an earlier session has just been removed from a
\* collection of two
C13_Witness ==
  /\ ev.kind = "ok" /\ ev.op = "delete"
  /\ ev.req.id = Some(PersistedTodo.id)
  /\ Len(state.allTodos) = 1
  /\ state.stats.total = 1
  /\ state.stats.completed = 0

\* C14: a successful update replaces exactly the record with the matching
\* id in the canonical collection by the record the gateway returned, keeps
\* every other record and the order, recomputes the derived view and leaves
\* stats as they were.
C14_UpdateReplaces ==
  [][ EndsOk({"update", "toggle"}) =>
        LET returned == StoredAfter(ev'.req)
        IN /\ Len(state'.allTodos) = Len(state.allTodos)
           /\ \A i \in 1..Len(state.allTodos) :
                state'.allTodos[i] = IF state.allTodos[i].id = returned.id
                                       THEN returned
                                       ELSE state.allTodos[i]
           /\ state'.todos =
                filterAndSortTodos(state'.allTodos, state.filters, state.sort)
           /\ state'.stats = state.stats ]_vars

\* a toggle has just replaced one record of two, and stats have not followed
C14_Witness ==
  /\ ev.kind = "ok" /\ ev.op = "toggle"
  /\ Len(state.allTodos) = 2
  /\ \E i \in 1..2 : state.allTodos[i].updatedAt = now
  /\ state.stats # calculateStats(state.allTodos)

\* the step issues the gateway call of the container action op
Issues(op) ==
  \E c \in BagToSet(calls') :
    /\ c.op = op
    /\ ~c.elapsed
    /\ CopiesIn(c, calls') = CopiesIn(c, calls) + 1

\* C15: load sets isLoading before it calls the gateway; when the call
\* returns, the canonical collection and stats are exactly the returned
\* records and stats, the derived view is the query over them with the
\* current filters and sort, which keep their values, isLoading is false and
\* error is absent; so stats equal the aggregate over the canonical
\* collection after a load even if they had drifted.
C15_LoadReplaces ==
  [][ /\ Issues("load") => state' = [state EXCEPT !.isLoading = TRUE]
      /\ EndsOk({"load"}) =>
           /\ state'.allTodos = StoredTodosNext
           /\ state'.stats = calculateStats(StoredTodosNext)
           /\ state'.stats = calculateStats(state'.allTodos)
           /\ state'.filters = state.filters
           /\ state'.sort = state.sort
           /\ state'.todos =
                filterAndSortTodos(StoredTodosNext, state.filters, state.sort)
           /\ ~state'.isLoading
           /\ state'.error = None ]_vars

\* a load has just returned a record that was created and then completed in
\* this session, which had left stats drifted, under a filter that hides it
C15_Witness ==
  /\ ev.kind = "ok" /\ ev.op = "load"
  /\ Len(state.allTodos) = 1
  /\ state.allTodos[1].createdAt >= 0
  /\ state.allTodos[1].status = COMPLETED
  /\ state.stats.completed = 1
  /\ IsSome(state.filters.status)
  /\ Len(state.todos) = 0

\* C16: a step that replaces the filters (resp. the sort) changes, of the
\* container state, only the filters (resp. the sort) and the derived view,
\* which becomes the query over the unchanged canonical collection; it
\* issues no gateway call and leaves the backing store alone.
C16_ConfigureFrame ==
  [][ /\ state'.filters # state.filters =>
           /\ state' = [ state EXCEPT
                           !.filters = state'.filters,
                           !.todos = filterAndSortTodos(state.allTodos,
                                                        state'.filters, state.sort) ]
           /\ calls' = calls
           /\ localStorage' = localStorage
      /\ state'.sort # state.sort =>
           /\ state' = [ state EXCEPT
                           !.sort = state'.sort,
                           !.todos = filterAndSortTodos(state.allTodos,
                                                        state.filters, state'.sort) ]
           /\ calls' = calls
           /\ localStorage' = localStorage ]_vars

\* filters and sort have both been replaced while a call is in flight, and
\* the filters hide one record of two
C16_Witness ==
  /\ IsSome(state.filters.status)
  /\ state.sort.field = "title"
  /\ Len(state.allTodos) = 2
  /\ Len(state.todos) = 1
  /\ state.isLoading
  /\ BagCardinality(calls) = 1
  /\ ev = Quiet

\* C17: clearError sets error to null and changes nothing else of the
\* container state, also while a gateway call is in flight and isLoading is
\* true.
C17_ClearErrorFrame ==
  [][ clearError => state' = [state EXCEPT !.error = None] ]_vars

\* C18: toggleStatus of an id looks the record up in the canonical
\* collection when it is invoked and issues exactly one gateway update,
\* which carries only that id and the opposite of the record's status.
C18_ToggleRequest ==
  [][ \A c \in BagToSet(calls') :
        ( /\ c.op = "toggle"
          /\ ~c.elapsed
          /\ CopiesIn(c, calls') > CopiesIn(c, calls) ) =>
          LET at == findIndex(state.allTodos, Val(c.req.id))
          IN /\ at # 0
             /\ c.req = [ id |-> Some(state.allTodos[at].id),
                          title |-> None, description |-> None, priority |-> None,
                          status |-> Some(IF state.allTodos[at].status = PENDING
                                            THEN COMPLETED ELSE PENDING) ]
             /\ BagCardinality(calls') = BagCardinality(calls) + 1 ]_vars

\* a toggle that reopens a completed record is in flight
C18_Witness ==
  \E c \in BagToSet(calls) :
    /\ c.op = "toggle"
    /\ c.req.status = Some(PENDING)
    /\ \E i \in 1..Len(state.allTodos) :
         /\ Some(state.allTodos[i].id) = c.req.id
         /\ state.allTodos[i].status = COMPLETED
    /\ state.isLoading

\* how many times each record occurs in todos
BagOfSeq(todos) ==
  [ t \in {todos[i] : i \in 1..Len(todos)} |->
      Cardinality({i \in 1..Len(todos) : todos[i] = t}) ]

\* sub occurs in s when the case of the letters is ignored
OccursIgnoringCase(s, sub) ==
  \E i \in 0..(Len(s) - Len(sub)) :
    \A j \in 1..Len(sub) : toLowerChar(s[i + j]) = toLowerChar(sub[j])

\* todo satisfies every constraint that filters provides
Satisfies(todo, filters) ==
  /\ IsSome(filters.status) => todo.status = Val(filters.status)
  /\ IsSome(filters.priority) => todo.priority = Val(filters.priority)
  /\ IsSome(filters.search) =>
       \/ OccursIgnoringCase(todo.title, Val(filters.search))
       \/ /\ IsSome(todo.description)
          /\ OccursIgnoringCase(Val(todo.description), Val(filters.search))

\* C19: the result of the query engine holds exactly the records of the
\* collection that satisfy all provided constraints at once (status equal,
\* priority equal, search a case-insensitive substring of the title or of a
\* present description), each as often as the collection holds it; an
\* absent constraint excludes nothing.
C19_FilterExact ==
  BagOfSeq(state.todos) =
    BagOfSeq(SelectSeq(state.allTodos, LAMBDA t : Satisfies(t, state.filters)))

\* all three constraints are set and keep one record of two, which matches
\* the search by its description only, in another case
C19_Witness ==
  /\ IsSome(state.filters.status)
  /\ IsSome(state.filters.priority)
  /\ state.filters.search = Some(<< "a", "b" >>)
  /\ Len(state.allTodos) = 2
  /\ Len(state.todos) = 1
  /\ state.todos[1].description = Some(<< "a", "B" >>)
  /\ ~OccursIgnoringCase(state.todos[1].title, << "a", "b" >>)

\* C20: with the empty filter spec the result of the query engine is a
\* permutation of the whole collection, whatever the sort: every record
\* appears as often as in the collection, none is dropped or added.
C20_EmptyFilterPermutes ==
  state.filters = [status |-> None, priority |-> None, search |-> None] =>
    /\ Len(state.todos) = Len(state.allTodos)
    /\ BagOfSeq(state.todos) = BagOfSeq(state.allTodos)

\* the empty filter spec with a sort that reorders a full collection
C20_Witness ==
  /\ state.filters = [status |-> None, priority |-> None, search |-> None]
  /\ state.sort = [field |-> "priority", direction |-> "desc"]
  /\ Len(state.allTodos) = MaxCollection
  /\ Len(state.todos) = MaxCollection
  /\ state.todos # state.allTodos

\* C21: the query engine is idempotent: applied to its own result with the
\* same filters and sort it returns that result, as the same ordered
\* sequence; and the result is a function of the inputs.
C21_Idempotent ==
  /\ filterAndSortTodos(state.todos, state.filters, state.sort) = state.todos
  /\ filterAndSortTodos(
       filterAndSortTodos(state.allTodos, state.filters, state.sort),
       state.filters, state.sort) =
     filterAndSortTodos(state.allTodos, state.filters, state.sort)

\* a search that both records of the collection match, under a sort that
\* has made them change places
C21_Witness ==
  /\ IsSome(state.filters.search)
  /\ state.sort = [field |-> "updatedAt", direction |-> "desc"]
  /\ Len(state.allTodos) = 2
  /\ Len(state.todos) = 2
  /\ state.todos # state.allTodos

\* the rank of a priority: high = 1 < medium = 2 < low = 3
Rank(p) == CASE p = "high" -> 1 [] p = "medium" -> 2 [] p = "low" -> 3

\* the key of a precedes the key of b, for the key of field
KeyBefore(a, b, field) ==
  CASE field = "priority" -> Rank(a.priority) < Rank(b.priority)
    [] field = "title" -> StrLess(toLowerCase(a.title), toLowerCase(b.title))
    [] field = "createdAt" -> a.createdAt < b.createdAt
    [] field = "updatedAt" -> a.updatedAt < b.updatedAt

SameKey(a, b, field) == ~KeyBefore(a, b, field) /\ ~KeyBefore(b, a, field)

\* C22: the output of the query engine is ordered by the key of sort.field
\* (rank of the priority, lower-cased title, timestamp): along the output
\* the keys never decrease for asc and never increase for desc.
C22_OrderedByKey ==
  \A i \in 1..(Len(state.todos) - 1) :
    IF state.sort.direction = "asc"
      THEN ~KeyBefore(state.todos[i + 1], state.todos[i], state.sort.field)
      ELSE ~KeyBefore(state.todos[i], state.todos[i + 1], state.sort.field)

\* ascending by priority has put a high record, stored last, before a low one
C22_Witness ==
  /\ state.sort = [field |-> "priority", direction |-> "asc"]
  /\ Len(state.allTodos) = 2
  /\ state.allTodos[1].priority = "low"
  /\ state.allTodos[2].priority = "high"
  /\ Len(state.todos) = 2
  /\ state.todos[1].priority = "high"

\* C23: the sort is stable in both directions: the records of the output
\* whose key equals that of a given record appear in the order in which the
\* collection holds them.
C23_Stable ==
  \A k \in 1..Len(state.todos) :
    SelectSeq(state.todos,
              LAMBDA t : SameKey(t, state.todos[k], state.sort.field)) =
    SelectSeq(state.allTodos,
              LAMBDA t : /\ Satisfies(t, state.filters)
                         /\ SameKey(t, state.todos[k], state.sort.field))

\* descending by title, two different records whose titles differ in case
\* only have kept their order
C23_Witness ==
  /\ state.sort = [field |-> "title", direction |-> "desc"]
  /\ Len(state.allTodos) = 2
  /\ state.allTodos[1] # state.allTodos[2]
  /\ toLowerCase(state.allTodos[1].title) = toLowerCase(state.allTodos[2].title)
  /\ state.todos = state.allTodos

\* the validation rules, on a stored row
obeysRules(r) ==
  /\ trim(r.title) # << >>
  /\ Len(trim(r.title)) <= 255
  /\ IsSome(r.description) => Len(Val(r.description)) <= 1000
  /\ r.priority \in {"high", "medium", "low"}
  /\ r.status \in {"pending", "completed"}

\* C24: the creation path and the update path enforce the same validation
\* rules before anything is persisted, so no stored record has a title that is
\* empty or longer than 255 characters after trimming, a description longer
\* than 1000 characters, or a priority or status outside its enum.
C24_StoredRecordsObeyRules ==
  \A r \in backend.rows : obeysRules(r)

\* C25: list returns every record in the store, whatever the query of the
\* caller, and the stats it returns are the aggregate over those same records.
C25_ListIsOneSnapshot ==
  [][ /\ (backend.reading = None /\ backend'.reading # None) =>
           {Val(backend'.reading)[i] : i \in DOMAIN Val(backend'.reading)} = backend'.rows
      /\ (backend.reading # None /\ backend'.reading = None) =>
           LET response == Val(backend'.response)
           IN Val(response.stats) =
                sqlStats({response.data[i] : i \in DOMAIN response.data}) ]_vars

\* C26: when the stored item cannot be parsed, list does not fail and
\* returns no records and all-zero stats, and a load ends with an empty
\* canonical collection, isLoading false and no error.
C26_CorruptStoreListsEmpty ==
  [][ (localStorage = Unparsable /\ EndsAny({"load"})) =>
        /\ ev'.kind = "ok"
        /\ apiGetTodos(localStorage).ok
        /\ apiGetTodos(localStorage).data = << >>
        /\ apiGetTodos(localStorage).stats =
             [ total |-> 0, completed |-> 0, pending |-> 0,
               byPriority |-> [high |-> 0, medium |-> 0, low |-> 0] ]
        /\ state'.allTodos = << >>
        /\ ~state'.isLoading
        /\ state'.error = None ]_vars

\* a load has just ended over an item that cannot be parsed, under a filter
\* and a sort that were set before
C26_Witness ==
  /\ localStorage = Unparsable
  /\ ev.kind = "ok" /\ ev.op = "load"
  /\ state.allTodos = << >>
  /\ ~state.isLoading
  /\ state.error = None
  /\ IsSome(state.filters.status)
  /\ state.sort.field = "title"

\* C27: on the HTTP+SQL service every row of the todos table has completed_at
\* non-null exactly when its status is completed, and a row that a POST has
\* just created is pending.
C27_RowsCompletedAt ==
  /\ \A r \in backend.rows : IsSome(r.completed_at) <=> r.status = "completed"
  /\ \A response \in {backend.response[i] : i \in DOMAIN backend.response} :
       response.code = 201 => response.data[1].status = "pending"

\* C30: the wrapped function is never invoked before DebounceDelay has elapsed
\* since the most recent call of the debounced function.  A burst of calls
\* results in at most one invocation, which carries the arguments of the last
\* call; as long as the last call has had no invocation, the timer that will
\* make it is pending, due DebounceDelay after that call.
C30_Debounce ==
  /\ debounced.runs <= 1
  /\ debounced.burst <= 1
  /\ debounced.runs = 1 =>
       /\ Val(debounced.invoked).at >= Val(debounced.last).at + DebounceDelay
       /\ Val(debounced.invoked).args = Val(debounced.last).args
  /\ (IsSome(debounced.last) /\ debounced.runs = 0) =>
       debounced.timeoutId = Some([ due |-> Val(debounced.last).at + DebounceDelay,
                                    args |-> Val(debounced.last).args ])

\* a burst of several calls has ended with args y and has had its one
\* invocation, with y, DebounceDelay after its last call
C30_Witness ==
  /\ debounced.repeated
  /\ debounced.runs = 1
  /\ debounced.burst = 1
  /\ Val(debounced.last).args = "y"
  /\ Val(debounced.invoked) = [at |-> Val(debounced.last).at + DebounceDelay, args |-> "y"]

\* C30 as stated: in addition, every burst results in exactly one invocation,
\* and it is made exactly DebounceDelay after the last call.
C30_DebounceExact ==
  /\ C30_Debounce
  /\ ~debounced.starved
  /\ debounced.runs = 1 =>
       Val(debounced.invoked).at = Val(debounced.last).at + DebounceDelay

C29_FilterControls ==
  [][ /\ \A value \in SearchInputs :
           handleSearchChange(value) =>
             /\ state'.filters.status = state.filters.status
             /\ state'.filters.priority = state.filters.priority
             /\ state'.filters.search = IF value = << >> THEN None ELSE Some(value)
      /\ \A status \in {None} \cup {Some(s) : s \in TaskStatus} :
           handleStatusFilter(status) =>
             /\ state'.filters.status = status
             /\ state'.filters.priority = state.filters.priority
             /\ state'.filters.search = state.filters.search
      /\ \A priority \in {None} \cup {Some(p) : p \in Priority} :
           handlePriorityFilter(priority) =>
             /\ state'.filters.priority = priority
             /\ state'.filters.status = state.filters.status
             /\ state'.filters.search = state.filters.search
      /\ clearFilters =>
           state'.filters = [status |-> None, priority |-> None, search |-> None] ]_vars

\* the status has been set back to All while a search and a priority are
\* set, and they are still set
C29_Witness ==
  /\ state.filters.status = None
  /\ state.filters.priority = Some("high")
  /\ state.filters.search = Some(<< "a", "b" >>)
  /\ Len(state.allTodos) = 2

\* C31: in every reachable state the stats counters are consistent with the
\* size of the canonical collection: total is the number of records of
\* allTodos, and total is the sum of pending and completed and the sum of the
\* three byPriority counters.
C31_StatsMatchSize ==
  /\ state.stats.total = Len(state.allTodos)
  /\ state.stats.total = state.stats.pending + state.stats.completed
  /\ state.stats.total = state.stats.byPriority.high + state.stats.byPriority.medium
                           + state.stats.byPriority.low

\* C32: in every reachable state each of the counters total, pending,
\* completed and the three byPriority counters is at least zero.
C32_CountersNonNegative ==
  /\ state.stats.total >= 0
  /\ state.stats.pending >= 0
  /\ state.stats.completed >= 0
  /\ \A p \in Priority : state.stats.byPriority[p] >= 0

\* C33: once the first load has completed, in every state in which no action
\* is in flight the canonical collection holds exactly the records of the
\* backing store, with the same field values.
C33_CollectionIsStore ==
  calls = EmptyBag => state.allTodos = StoredTodos

\* C34: when toggleStatus is invoked several times for a record, also before
\* an earlier invocation has completed, and the gateway calls succeed, every
\* invocation flips the stored status: a toggle that completes right after
\* another toggle of the same record has completed flips the stored status
\* again.
C34_EveryToggleFlips ==
  [][ ( /\ ev.kind = "ok" /\ ev.op = "toggle"
        /\ EndsOk({"toggle"})
        /\ ev'.req.id = ev.req.id ) =>
        StoredAfter(ev'.req).status # StoredBefore(ev'.req).status ]_vars

\* C35: isLoading is true in every state in which a gateway call issued by a
\* container action is still in flight.
C35_LoadingWhileInFlight ==
  calls # EmptyBag => state.isLoading

\* C36: a gateway call that has not returned keeps isLoading true: in a step
\* in which no call is issued and none returns, while one is in flight,
\* isLoading does not go from true to false.
C36_HungCallKeepsLoading ==
  [][ ( /\ state.isLoading
        /\ BagCardinality(calls) > 0
        /\ BagCardinality(calls') = BagCardinality(calls) ) =>
        state'.isLoading ]_vars

\* C36 (under fairness): every started action ends, and the Container then
\* has no call in flight and isLoading false.
C36_EventuallyIdle ==
  (calls # EmptyBag) ~> (calls = EmptyBag /\ ~state.isLoading)

\* C36 (persistence): isLoading goes from false to true only in a step that
\* starts an action.
C36_IdlePersists ==
  [][ (~state.isLoading /\ state'.isLoading) =>
        BagCardinality(calls') > BagCardinality(calls) ]_vars

\* C37: a successful create, update, delete or toggle leaves the error field
\* as it was;
\* an error that is set is cleared only by clearError or a successful load.
C37_SuccessKeepsError ==
  [][ /\ EndsOk({"create", "update", "toggle", "delete"}) => state'.error = state.error
      /\ (state.error # None /\ state'.error = None) => (clearError \/ EndsOk({"load"})) ]_vars

\* a create, update, delete or toggle has succeeded while the error of an
\* earlier failure is still set
C37_Witness ==
  /\ ev.kind = "ok"
  /\ ev.op \in {"create", "update", "toggle", "delete"}
  /\ state.error # None

\* C38: when the action a form has submitted fails, the entered data is kept,
\* onSubmit is not invoked (the form stays shown) and the submit error is set;
\* the data is cleared and the form is closed only when the action succeeded.
C38_FailedSubmitKeepsForm ==
  [][ /\ (form.isSubmitting /\ EndsFailed({"create", "update"})) =>
           /\ form'.shown
           /\ form'.formData = form.formData
           /\ form'.errors.submit \notin {None, Some("")}
      /\ (form.isSubmitting /\ ~form'.shown) => EndsOk({"create", "update"}) ]_vars

\* C39: the completion percentage derived from stats lies between 0 and 100.
C39_PercentageInRange ==
  /\ completionPercentage(state.stats) >= 0
  /\ completionPercentage(state.stats) <= 100

====
